---- MODULE Spec2Model ----
(***************************************************************************)
(* A model of the sports-scribe data collectors:                           *)
(*   - download_single_html_page  (direct strategy, fbref_collector.py)    *)
(*   - download_with_selenium     (automated-browser strategy)             *)
(*   - the __main__ driver loop over (season, league) tasks                *)
(* Text is modelled as a sequence of words, so that Python's substring     *)
(* test `m in s` is the contiguous-subsequence test Contains(m, s).        *)
(***************************************************************************)
EXTENDS Integers, Sequences, FiniteSets, TLC

VARIABLES
    d_pc,        \* position of the download_single_html_page call
    d_i,         \* loop variable i of `for i in range(3)`
    d_open,      \* the requests.Session is open
    d_closes,    \* number of session.close() calls
    d_reqs,      \* GET requests issued on the session, in order
    d_response,  \* local variable `response` (<<>> while unbound)
    d_sleeps,    \* time.sleep calls, in order
    d_prints,    \* diagnostic lines printed by the call
    d_result,    \* how the call ended
    s_pc,        \* position of each download_with_selenium call
    s_url,       \* argument url of each call
    s_driver,    \* local variable `driver` of each call (0 is None)
    s_timedOut,  \* the challenge wait of the call ended in TimeoutException
    s_slept,     \* think-delays performed by the call
    s_html,      \* local variable html_content (<<>> while unbound, else <<text>>)
    s_prints,    \* diagnostic lines printed by the call
    s_result,    \* how the call ended
    drivers,     \* every browser session created so far, by driver id
    m_pc,        \* position of the __main__ driver
    m_seasons,   \* list `seasons`
    m_leagues,   \* zip(league_ids, league_names)
    m_si,        \* index of the current season
    m_li,        \* index of the current league
    m_league,    \* variable league_name (<<>> while unbound)
    m_html,      \* variable html_content (<<>> while unbound)
    m_output,    \* variable output_file (<<>> while unbound)
    m_attempted, \* tasks whose fetch was started, in order
    m_fetched,   \* tasks whose fetch returned, with the content returned
    m_files,     \* files written by save_html_to_file: file name -> content
    m_prints,    \* diagnostic lines printed by the driver
    t_pc,        \* position of the tabular pipeline (football_data_collector)
    t_file,      \* raw file name, as text pieces
    t_raw,       \* the raw csv file: [columns, data]
    t_df,        \* the DataFrame in hand: [columns, index, data]
    t_disk,      \* processed folder: file path -> [columns, data]
    t_runs,      \* completed runs of the pipeline on the raw file
    u_pc,        \* position of the url-builder calls
    u_args,      \* arguments of the url-builder calls
    u_out,       \* urls returned: by the tabular builder and the two html builders
    p_pc,        \* position of the parse_score call
    p_raw,       \* argument of parse_score, as a sequence of characters
    p_result,    \* pair returned by parse_score
    a_key,       \* the APIFootballClient has an API key (headers set)
    a_session,   \* self.session: 0 is None, else a session id
    a_sessions,  \* every aiohttp session created: [open, requests]
    a_ops,       \* operations performed on the client so far
    a_trace,     \* the operations performed on the client, in order
    a_last       \* the last get_fixtures call: arguments, requests made, result

d_vars == <<d_pc, d_i, d_open, d_closes, d_reqs, d_response, d_sleeps, d_prints, d_result>>
s_vars == <<s_pc, s_url, s_driver, s_timedOut, s_slept, s_html, s_prints, s_result, drivers>>
m_vars == <<m_pc, m_seasons, m_leagues, m_si, m_li, m_league, m_html, m_output,
            m_attempted, m_fetched, m_files, m_prints>>
t_vars == <<t_pc, t_file, t_raw, t_df, t_disk, t_runs>>
u_vars == <<u_pc, u_args, u_out>>
p_vars == <<p_pc, p_raw, p_result>>
a_vars == <<a_key, a_session, a_sessions, a_ops, a_trace, a_last>>
\* The components outside fbref_collector's fetchers and driver.
x_vars == <<t_vars, u_vars, p_vars, a_vars>>
vars == <<d_vars, s_vars, m_vars, x_vars>>

---------------------------------------------------------------------------
(* Text helpers *)

\* Python `needle in hay` on text: needle occurs as a contiguous run of hay.
Contains(needle, hay) ==
    \E k \in 0..(Len(hay) - Len(needle)) :
        \A j \in 1..Len(needle) : hay[k + j] = needle[j]

\* Pending result of a call that has not ended.
Pending == [kind |-> "pending", value |-> <<>>, msg |-> <<>>]
\* `return v`; value <<>> is Python's None (falling off the end of the function).
Return(v) == [kind |-> "return", value |-> v, msg |-> <<>>]
\* `raise ValueError(msg)`
RaiseValueError(msg) == [kind |-> "raise", value |-> <<>>, msg |-> msg]

---------------------------------------------------------------------------
(* download_single_html_page  (the direct strategy) *)

\* A retry loop that runs one iteration too many.
MaxAttemptsOffByOne == 3 + 1
\* range(3)
MaxAttempts == 3
\* A backoff that is also taken after the last attempt.
LastSleepIndexOffByOne == 2 + 1
\* i < 2 : no sleep on the last attempt
LastSleepIndex == 2
\* response.status_code == 200
StatusOK == 200
\* response.status_code == 403
StatusForbidden == 403

\* Status codes the server may answer with.
Statuses == {200, 204, 304, 403, 404, 500}
\* Response bodies.
Bodies == {"", "<html>fixtures</html>"}
\* requests.exceptions.RequestException subclasses session.get may raise.
RequestExceptions == {"ConnectionError", "Timeout"}
\* What one session.get(url) can do: answer, or raise.
GetOutcomes ==
    [exc : {"none"}, status : Statuses, text : Bodies]
        \cup [exc : RequestExceptions, status : {0}, text : {""}]

\* What the visit of the root host can do.
RootOutcomes ==
    [exc : {"none"}, status : {200, 403}, text : {""}]
        \cup [exc : RequestExceptions \cup {"Exception"}, status : {0}, text : {""}]

\* Samples of random.uniform(1.0, 3.0), uniform(1, 3), uniform(5, 15), uniform(2, 8).
InitialDelays == {1, 3}
RootDelays == {1, 3}
ForbiddenDelays == {5, 15}
OtherDelays == {2, 8}

\* requests' Response.raise_for_status: raises HTTPError for 4xx and 5xx only.
RaisesForStatus(status) == status >= 400 /\ status < 600

\* The except-RequestException handler: report, suggest, raise ValueError.
RequestExceptionHandler(cause) ==
    /\ d_prints' = d_prints \o <<"Failed to fetch data", "Suggested alternatives">>
    /\ d_result' = RaiseValueError(<<"Failed to fetch data from url", cause>>)

\* The finally clause: session.close()
\* A call that ends without closing its session.
SessionLeftOpen ==
    /\ d_open' = d_open
    /\ d_closes' = d_closes

CloseSession ==
    /\ d_open' = FALSE
    /\ d_closes' = d_closes + 1

\* Entry of the call: session created, headers set, first human-like delay.
DirectCall ==
    /\ d_pc = "idle"
    /\ d_pc' = "root"
    /\ d_open' = TRUE
    /\ \E delay \in InitialDelays :
        d_sleeps' = Append(d_sleeps, [why |-> "initial", dur |-> delay])
    /\ UNCHANGED <<d_i, d_closes, d_reqs, d_response, d_prints, d_result>>
    /\ UNCHANGED <<s_vars, m_vars, x_vars>>

\* A root-host visit outside any try: its exception ends the call.
RootVisitFatal ==
    /\ d_pc = "root"
    /\ \E out \in RootOutcomes :
        /\ d_reqs' = Append(d_reqs, [to |-> "root", out |-> out])
        /\ IF out.exc = "none"
             THEN /\ \E delay \in RootDelays :
                        d_sleeps' = Append(d_sleeps, [why |-> "root", dur |-> delay])
                  /\ d_prints' = Append(d_prints, "Main page status")
                  /\ d_pc' = "attempt"
                  /\ d_i' = 0
                  /\ UNCHANGED <<d_open, d_closes, d_result>>
             ELSE /\ d_sleeps' = d_sleeps
                  /\ RequestExceptionHandler(out.exc)
                  /\ CloseSession
                  /\ d_pc' = "done"
                  /\ d_i' = d_i
    /\ UNCHANGED d_response
    /\ UNCHANGED <<s_vars, m_vars, x_vars>>

\* The best-effort visit of the root host; any exception is only a warning.
RootVisit ==
    /\ d_pc = "root"
    /\ d_pc' = "attempt"
    /\ d_i' = 0
    /\ \E out \in RootOutcomes :
        /\ d_reqs' = Append(d_reqs, [to |-> "root", out |-> out])
        /\ IF out.exc = "none"
             THEN /\ \E delay \in RootDelays :
                        d_sleeps' = Append(d_sleeps, [why |-> "root", dur |-> delay])
                  /\ d_prints' = Append(d_prints, "Main page status")
             ELSE /\ d_sleeps' = d_sleeps
                  /\ d_prints' = Append(d_prints, "Warning: Could not establish session")
    /\ UNCHANGED <<d_open, d_closes, d_response, d_result>>
    /\ UNCHANGED <<s_vars, m_vars, x_vars>>

\* One iteration of the retry loop, with everything that follows it when the
\* iteration ends the call (raise_for_status, the except handler, finally).
Attempt ==
    /\ d_pc = "attempt"
    /\ d_open
    /\ \E out \in GetOutcomes :
        /\ d_reqs' = Append(d_reqs, [to |-> "target", out |-> out])
        /\ IF out.exc # "none"
             THEN \* session.get raised: straight to the except handler
                  /\ RequestExceptionHandler(out.exc)
                  /\ CloseSession
                  /\ d_pc' = "done"
                  /\ UNCHANGED <<d_i, d_response, d_sleeps>>
             ELSE
                  /\ d_response' = <<out>>
                  /\ IF out.status = StatusOK
                       THEN /\ d_result' = Return(<<out.text>>)
                            /\ d_prints' = Append(d_prints, "Request success")
                            /\ CloseSession
                            /\ d_pc' = "done"
                            /\ UNCHANGED <<d_i, d_sleeps>>
                       ELSE
                            /\ IF d_i < LastSleepIndex
                                 THEN \E delay \in (IF out.status = StatusForbidden
                                                      THEN ForbiddenDelays ELSE OtherDelays) :
                                        d_sleeps' = Append(d_sleeps,
                                            [why |-> IF out.status = StatusForbidden
                                                       THEN "forbidden" ELSE "other",
                                             dur |-> delay])
                                 ELSE d_sleeps' = d_sleeps
                            /\ d_i' = d_i + 1
                            /\ IF d_i + 1 < MaxAttempts
                                 THEN /\ d_pc' = "attempt"
                                      /\ d_prints' = Append(d_prints,
                                            IF out.status = StatusForbidden
                                              THEN "403 Forbidden error"
                                              ELSE "Unexpected status code")
                                      /\ UNCHANGED <<d_open, d_closes, d_result>>
                                 ELSE \* loop exhausted: response.raise_for_status()
                                      /\ d_pc' = "done"
                                      /\ CloseSession
                                      /\ IF RaisesForStatus(out.status)
                                           THEN RequestExceptionHandler("HTTPError")
                                           ELSE /\ d_result' = Return(<<>>)
                                                /\ d_prints' = Append(d_prints,
                                                      "Unexpected status code")
    /\ UNCHANGED <<s_vars, m_vars, x_vars>>

DirectInit ==
    /\ d_pc = "idle"
    /\ d_i = 0
    /\ d_open = FALSE
    /\ d_closes = 0
    /\ d_reqs = <<>>
    /\ d_response = <<>>
    /\ d_sleeps = <<>>
    /\ d_prints = <<>>
    /\ d_result = Pending

\* Requests of the call that went to the target URL.
TargetRequests == SelectSeq(d_reqs, LAMBDA r : r.to = "target")

---------------------------------------------------------------------------
(* generate_request_url and the task lists of __main__ *)

\* generate_request_url(league_id, league_name, season)
generate_request_url(league_id, league_name, season) ==
    LET season_code == ToString(season) \o "-" \o ToString(season + 1)
        endpoint == season_code \o "-" \o league_name \o "-Scores-and-Fixtures"
    IN  "https://fbref.com/en/comps/" \o ToString(league_id) \o "/"
            \o season_code \o "/schedule/" \o endpoint

\* The lists named in the __main__ docstring: zip(league_ids, league_names), seasons.
AllLeagues == << [id |-> 9, name |-> "Premier-League"],
                 [id |-> 8, name |-> "Champions-League"],
                 [id |-> 12, name |-> "La-Liga"] >>
AllSeasons == <<2020, 2021, 2022, 2023, 2024>>

---------------------------------------------------------------------------
(* download_with_selenium  (the automated-browser strategy) *)

\* Concurrent calls of download_with_selenium considered.
NumCalls == 2
Calls == 1..NumCalls

\* The two challenge markers the code looks for.
JustAMoment == <<"Just", "a", "moment">>
CheckingYourBrowser == <<"Checking", "your", "browser">>

\* Page sources the browser may hold for a url: challenge pages, the real page,
\* near misses of the markers, a page mixing real content with a marker, nothing.
PageSources(url) ==
    { <<"Just", "a", "moment">>,
      <<"html", "Checking", "your", "browser">>,
      <<url, "fixtures", "Just", "a", "moment", "please">>,
      <<url, "fixtures">>,
      <<"Just", "a", url, "Checking", "your">>,
      <<>> }
\* Page titles the browser may hold.
PageTitles(url) == { <<"Just", "a", "moment", "...">>, <<url>> }

\* Exceptions a WebDriver operation may raise.
DriverExceptions == {"WebDriverException", "Exception"}
\* Samples of random.uniform(2, 5).
ThinkDelays == {2, 5}

\* The url the concurrent calls are invoked with: the task configured in __main__.
SelUrls == { generate_request_url(8, "Champions-League", 2024) }

\* lambda d: "Just a moment" not in d.title and "Checking your browser" not in d.page_source
WaitCondition(title, source) ==
    /\ ~Contains(JustAMoment, title)
    /\ ~Contains(CheckingYourBrowser, source)

\* A final check that looks for the first marker only.
StillChallengeFirstMarkerOnly(html_content) == Contains(JustAMoment, html_content)
\* "Just a moment" in html_content or "Checking your browser" in html_content
StillChallenge(html_content) ==
    \/ Contains(JustAMoment, html_content)
    \/ Contains(CheckingYourBrowser, html_content)

\* A driver kept in one module-level variable: the driver created last.
DriverOfShared(c) == Len(drivers)
\* The local variable `driver` of call c.
DriverOf(c) == s_driver[c]

\* A driver operation performed by call c on driver d.
Used(ds, d, c) == [ds EXCEPT ![d].users = @ \cup {c}]
\* driver.quit() performed by call c on driver d.
Quitted(ds, d, c) ==
    [ds EXCEPT ![d].users = @ \cup {c}, ![d].live = FALSE, ![d].quits = @ + 1]
\* A function without the finally clause: the session is never quit on exit.
FinallyMissing(ds, c) == ds
\* The finally clause: if driver: driver.quit()
Finally(ds, c) == IF DriverOf(c) # 0 THEN Quitted(ds, DriverOf(c), c) ELSE ds

\* except WebDriverException: report, print the troubleshooting hints, raise.
WebDriverHandler(cause) ==
    [result |-> RaiseValueError(<<"WebDriver error", cause>>),
     prints |-> <<"WebDriver error", "Troubleshooting",
                  "1. Make sure Chrome browser is installed",
                  "2. Install ChromeDriver",
                  "3. Or use: pip install webdriver-manager">>]
\* except Exception: report, raise.
GenericHandler(cause) ==
    [result |-> RaiseValueError(<<"Failed to scrape with Selenium", cause>>),
     prints |-> <<"Unexpected error">>]
\* Every failure reported through the WebDriver clause, hints included.
HandlerForAlwaysWebDriver(excClass, cause) == WebDriverHandler(cause)
\* Which except clause catches an exception of the given class.
HandlerFor(excClass, cause) ==
    IF excClass = "WebDriverException"
      THEN WebDriverHandler(cause)
      ELSE GenericHandler(cause)

\* Call c ends by an exception of class excClass raised inside the try block.
SelFail(c, excClass, cause, ds) ==
    LET h == HandlerFor(excClass, cause) IN
    /\ s_result' = [s_result EXCEPT ![c] = h.result]
    /\ s_prints' = [s_prints EXCEPT ![c] = @ \o h.prints]
    /\ drivers' = Finally(ds, c)
    /\ s_pc' = [s_pc EXCEPT ![c] = "done"]

\* Entry of the function: driver = None.
SelEnter(c, url) ==
    /\ s_pc' = [s_pc EXCEPT ![c] = "create"]
    /\ s_url' = [s_url EXCEPT ![c] = url]
    /\ s_driver' = [s_driver EXCEPT ![c] = 0]
    /\ s_timedOut' = [s_timedOut EXCEPT ![c] = FALSE]
    /\ s_slept' = [s_slept EXCEPT ![c] = <<>>]
    /\ s_html' = [s_html EXCEPT ![c] = <<>>]
    /\ s_prints' = [s_prints EXCEPT ![c] = <<>>]
    /\ s_result' = [s_result EXCEPT ![c] = Pending]
    /\ UNCHANGED drivers

\* A caller invokes download_with_selenium(url) as call c.
SelInvoke(c) ==
    /\ s_pc[c] = "idle"
    /\ \E url \in SelUrls : SelEnter(c, url)
    /\ UNCHANGED <<d_vars, m_vars, x_vars>>

\* driver = webdriver.Chrome(options=chrome_options)
SelCreate(c) ==
    /\ s_pc[c] = "create"
    /\ \/ /\ drivers' = Append(drivers, [owner |-> c, live |-> TRUE, quits |-> 0,
                                          users |-> {}])
          /\ s_driver' = [s_driver EXCEPT ![c] = Len(drivers) + 1]
          /\ s_pc' = [s_pc EXCEPT ![c] = "script"]
          /\ s_prints' = [s_prints EXCEPT ![c] = Append(@, "Starting Chrome WebDriver")]
          /\ UNCHANGED s_result
       \/ /\ \E e \in DriverExceptions : SelFail(c, e, "Chrome()", drivers)
          /\ UNCHANGED s_driver
    /\ UNCHANGED <<s_url, s_timedOut, s_slept, s_html>>
    /\ UNCHANGED <<d_vars, m_vars, x_vars>>

\* driver.execute_script(...)
SelScript(c) ==
    /\ s_pc[c] = "script"
    /\ LET ds == Used(drivers, DriverOf(c), c) IN
       \/ /\ drivers' = ds
          /\ s_pc' = [s_pc EXCEPT ![c] = "get"]
          /\ UNCHANGED <<s_result, s_prints>>
       \/ \E e \in DriverExceptions : SelFail(c, e, "execute_script", ds)
    /\ UNCHANGED <<s_url, s_driver, s_timedOut, s_slept, s_html>>
    /\ UNCHANGED <<d_vars, m_vars, x_vars>>

\* driver.get(url)
SelGet(c) ==
    /\ s_pc[c] = "get"
    /\ LET ds == Used(drivers, DriverOf(c), c) IN
       \/ /\ drivers' = ds
          /\ s_pc' = [s_pc EXCEPT ![c] = "wait"]
          /\ s_prints' = [s_prints EXCEPT ![c] = Append(@, "Navigating")]
          /\ UNCHANGED s_result
       \/ \E e \in DriverExceptions : SelFail(c, e, "get", ds)
    /\ UNCHANGED <<s_url, s_driver, s_timedOut, s_slept, s_html>>
    /\ UNCHANGED <<d_vars, m_vars, x_vars>>

\* No inner try: TimeoutException (a WebDriverException) ends the call.
OnWaitTimeoutFatal(c, ds) ==
    /\ s_timedOut' = [s_timedOut EXCEPT ![c] = TRUE]
    /\ s_slept' = s_slept
    /\ SelFail(c, "WebDriverException", "TimeoutException", ds)

\* except TimeoutException: print, proceed to the think-delay.
OnWaitTimeout(c, ds) ==
    /\ s_timedOut' = [s_timedOut EXCEPT ![c] = TRUE]
    /\ s_prints' = [s_prints EXCEPT ![c] = Append(@, "Timeout waiting, but proceeding anyway")]
    /\ \E delay \in ThinkDelays : s_slept' = [s_slept EXCEPT ![c] = Append(@, delay)]
    /\ drivers' = ds
    /\ s_pc' = [s_pc EXCEPT ![c] = "read"]
    /\ UNCHANGED s_result

\* WebDriverWait(driver, 30).until(...), then time.sleep(random.uniform(2, 5)).
\* (title, source) is what the last poll of the wait saw.
SelWait(c) ==
    /\ s_pc[c] = "wait"
    /\ LET ds == Used(drivers, DriverOf(c), c) IN
       \/ \E title \in PageTitles(s_url[c]), source \in PageSources(s_url[c]) :
            IF WaitCondition(title, source)
              THEN /\ s_prints' = [s_prints EXCEPT ![c] = Append(@, "Challenge completed")]
                   /\ \E delay \in ThinkDelays :
                        s_slept' = [s_slept EXCEPT ![c] = Append(@, delay)]
                   /\ drivers' = ds
                   /\ s_pc' = [s_pc EXCEPT ![c] = "read"]
                   /\ UNCHANGED <<s_timedOut, s_result>>
              ELSE OnWaitTimeout(c, ds)
       \/ /\ \E e \in DriverExceptions : SelFail(c, e, "until", ds)
          /\ UNCHANGED <<s_timedOut, s_slept>>
    /\ UNCHANGED <<s_url, s_driver, s_html>>
    /\ UNCHANGED <<d_vars, m_vars, x_vars>>

\* html_content = driver.page_source; the marker check; return.
SelRead(c) ==
    /\ s_pc[c] = "read"
    /\ LET ds == Used(drivers, DriverOf(c), c) IN
       \/ \E html_content \in PageSources(s_url[c]) :
            /\ s_html' = [s_html EXCEPT ![c] = <<html_content>>]
            /\ IF StillChallenge(html_content)
                 THEN SelFail(c, "ValueError", "Still showing Cloudflare challenge page", ds)
                 ELSE /\ s_result' = [s_result EXCEPT ![c] = Return(<<html_content>>)]
                      /\ s_prints' = [s_prints EXCEPT ![c] = Append(@, "Successfully retrieved page")]
                      /\ drivers' = Finally(ds, c)
                      /\ s_pc' = [s_pc EXCEPT ![c] = "done"]
       \/ /\ \E e \in DriverExceptions : SelFail(c, e, "page_source", ds)
          /\ UNCHANGED s_html
    /\ UNCHANGED <<s_url, s_driver, s_timedOut, s_slept>>
    /\ UNCHANGED <<d_vars, m_vars, x_vars>>

SelInit ==
    /\ s_pc = [c \in Calls |-> "idle"]
    /\ s_url = [c \in Calls |-> ""]
    /\ s_driver = [c \in Calls |-> 0]
    /\ s_timedOut = [c \in Calls |-> FALSE]
    /\ s_slept = [c \in Calls |-> <<>>]
    /\ s_html = [c \in Calls |-> <<>>]
    /\ s_prints = [c \in Calls |-> <<>>]
    /\ s_result = [c \in Calls |-> Pending]
    /\ drivers = <<>>

---------------------------------------------------------------------------
(* The __main__ driver loop over (season, league) tasks *)

\* Longest `seasons` and league lists considered.
MaxSeasons == 2
MaxLeagues == 2

\* Non-empty contiguous runs of a list, of length at most n.
Runs(list, n) ==
    { SubSeq(list, a, b) : a \in 1..Len(list), b \in 1..Len(list) } \
        { r \in { SubSeq(list, a, b) : a \in 1..Len(list), b \in 1..Len(list) } :
            Len(r) = 0 \/ Len(r) > n }

\* The call slot the sequential driver runs its fetches in.
MainCall == 1

\* A task of the run.
Task(season, league) == [season |-> season, league |-> league.name]
\* Every task of the configured run, in loop order.
AllTasks == { Task(m_seasons[i], m_leagues[j]) :
                i \in 1..Len(m_seasons), j \in 1..Len(m_leagues) }

\* f"fbref_{league_name}_{season}_{season+1}.html"
OutputFile(league_name, season) ==
    "fbref_" \o league_name \o "_" \o ToString(season) \o "_"
        \o ToString(season + 1) \o ".html"

\* save_html_to_file: open(filepath, "w") and write: the file holds exactly the content.
save_html_to_file(files, html_content, filename) ==
    [n \in DOMAIN files \cup {filename} |->
        IF n = filename THEN html_content ELSE files[n]]

\* The loop body up to the call: build the url, call download_with_selenium.
MainFetch ==
    /\ m_pc = "loop"
    /\ LET season == m_seasons[m_si]
           league == m_leagues[m_li]
           url == generate_request_url(league.id, league.name, season)
       IN /\ m_league' = <<league.name>>
          /\ m_attempted' = Append(m_attempted, Task(season, league))
          /\ m_prints' = Append(m_prints, "Generated URL")
          /\ SelEnter(MainCall, url)
    /\ m_pc' = "fetching"
    /\ UNCHANGED <<m_seasons, m_leagues, m_si, m_li, m_html, m_output, m_fetched, m_files>>
    /\ UNCHANGED <<d_vars, x_vars>>

\* The call came back: the rest of the loop body, the loop steps, and whatever
\* follows the loops (save_html_to_file) or the except ValueError clause.
MainResume ==
    /\ m_pc = "fetching"
    /\ s_pc[MainCall] = "done"
    /\ LET r == s_result[MainCall]
           season == m_seasons[m_si]
       IN IF r.kind = "raise"
            THEN \* except ValueError as selenium_error
                 /\ m_pc' = "done"
                 /\ m_prints' = m_prints \o <<"Selenium method also failed",
                                             "Both methods failed">>
                 /\ UNCHANGED <<m_si, m_li, m_html, m_output, m_fetched, m_files>>
            ELSE
                 /\ m_html' = r.value
                 /\ m_fetched' = Append(m_fetched,
                        [task |-> Task(season, m_leagues[m_li]), content |-> r.value[1]])
                 /\ IF m_li < Len(m_leagues)
                      THEN \* next league of the same season
                           /\ m_li' = m_li + 1
                           /\ m_pc' = "loop"
                           /\ UNCHANGED <<m_si, m_output, m_files, m_prints>>
                      ELSE \* inner loop over: print, output_file = ...
                           /\ m_output' = <<OutputFile(m_league[1], season)>>
                           /\ m_li' = 1
                           /\ m_prints' = Append(m_prints, "Success with Selenium method!")
                           /\ IF m_si < Len(m_seasons)
                                THEN /\ m_si' = m_si + 1
                                     /\ m_pc' = "loop"
                                     /\ UNCHANGED m_files
                                ELSE \* both loops over: save_html_to_file
                                     /\ m_si' = m_si
                                     /\ m_files' = save_html_to_file(m_files, r.value[1],
                                                        OutputFile(m_league[1], season))
                                     /\ m_pc' = "done"
    /\ UNCHANGED <<m_seasons, m_leagues, m_league, m_attempted>>
    /\ UNCHANGED <<d_vars, s_vars, x_vars>>

\* The driver's variables when the driver does not run.
MainOff ==
    /\ m_pc = "off"
    /\ m_seasons = <<>>
    /\ m_leagues = <<>>
    /\ m_si = 1
    /\ m_li = 1
    /\ m_league = <<>>
    /\ m_html = <<>>
    /\ m_output = <<>>
    /\ m_attempted = <<>>
    /\ m_fetched = <<>>
    /\ m_files = << >>
    /\ m_prints = <<>>

\* The driver at the start of __main__, for the task lists considered.
MainInit ==
    /\ m_pc = "loop"
    /\ m_seasons \in Runs(AllSeasons, MaxSeasons)
    /\ m_leagues \in Runs(AllLeagues, MaxLeagues)
    /\ m_si = 1
    /\ m_li = 1
    /\ m_league = <<>>
    /\ m_html = <<>>
    /\ m_output = <<>>
    /\ m_attempted = <<>>
    /\ m_fetched = <<>>
    /\ m_files = << >>
    /\ m_prints = <<>>

---------------------------------------------------------------------------
(* football_data_collector: the tabular pipeline *)

\* Text is a sequence of pieces; the separators "_" and "." are pieces of
\* their own, so that str.split can be computed on it.
RECURSIVE Text(_)
Text(pieces) == IF pieces = <<>> THEN "" ELSE Head(pieces) \o Text(Tail(pieces))

\* str.split(sep): the list of the parts between the separators
RECURSIVE Split(_, _)
Split(s, sep) ==
    IF \A k \in 1..Len(s) : s[k] # sep THEN <<s>>
    ELSE LET k == CHOOSE k \in 1..Len(s) :
                      s[k] = sep /\ \A j \in 1..(k - 1) : s[j] # sep
         IN  <<SubSeq(s, 1, k - 1)>> \o Split(SubSeq(s, k + 1, Len(s)), sep)

\* An empty cell of a csv file, read as NaN and written back as empty.
NaN == ""

RawFolder == "data/raw"
ProcessedFolder == "data/processed"

\* A raw file named after a league code, one named after a league, and one
\* whose name has no season part.
FileE0 == <<"E0", "_", "2024", ".", "csv">>
FilePL == <<"Premier-League", "_", "2024", ".", "csv">>
FileNoSeason == <<"E0", ".", "csv">>
Files == {FileE0, FilePL, FileNoSeason}

MatchA ==
    [Div |-> "E0", Date |-> "16/08/2024", HomeTeam |-> "Man United",
     AwayTeam |-> "Fulham", FTHG |-> "1", FTAG |-> "0", Referee |-> "R Jones"]
MatchB ==
    [Div |-> "E0", Date |-> "17/08/2024", HomeTeam |-> "Ipswich",
     AwayTeam |-> "Liverpool", FTHG |-> "0", FTAG |-> "2", Referee |-> "T Robinson"]

\* The lines of a raw file: a match, with either goal count possibly empty.
RawRows ==
    {[m EXCEPT !.FTHG = h, !.FTAG = a] :
        m \in {MatchA, MatchB}, h \in {"1", NaN}, a \in {"0", NaN}}

HeaderFull == <<"Div", "Date", "HomeTeam", "AwayTeam", "FTHG", "FTAG", "Referee">>
HeaderReordered == <<"HomeTeam", "AwayTeam", "Date", "FTAG", "FTHG">>
HeaderLackingFTHG == <<"Div", "Date", "HomeTeam", "AwayTeam", "FTAG">>
Headers == {HeaderFull, HeaderReordered, HeaderLackingFTHG}

MaxRows == 2

\* The raw csv files the pipeline is run on.
RawTables ==
    UNION {{[columns |-> h, data |-> [i \in 1..n |-> [k \in 1..Len(h) |-> lines[i][h[k]]]]] :
                h \in Headers, lines \in [1..n -> RawRows]} : n \in 0..MaxRows}

InSeqOf(x, s) == \E k \in 1..Len(s) : s[k] = x
Pos(cols, name) == CHOOSE k \in 1..Len(cols) : cols[k] = name
Column(df, name) == [i \in 1..Len(df.data) |-> df.data[i][Pos(df.columns, name)]]

\* pd.read_csv infers a float column where a numeric column has empty cells,
\* so that its whole numbers read 1.0; an all-integer column stays integer.
Numeric == {"0", "1", "2"}
FloatColumn(raw, k) ==
    /\ \E i \in 1..Len(raw.data) : raw.data[i][k] = NaN
    /\ \A i \in 1..Len(raw.data) : raw.data[i][k] \in Numeric \cup {NaN}
ReadCell(raw, i, k) ==
    IF FloatColumn(raw, k) /\ raw.data[i][k] # NaN
    THEN raw.data[i][k] \o ".0" ELSE raw.data[i][k]

\* The default index of a freshly read table counts the rows from one
\* (not what pandas does).
RangeIndexFromOne(n) == [i \in 1..n |-> i]
\* The default RangeIndex of a freshly read table: 0, 1, ..., n-1.
RangeIndex(n) == [i \in 1..n |-> i - 1]

read_csv(raw) ==
    [columns |-> raw.columns,
     index   |-> RangeIndex(Len(raw.data)),
     data    |-> [i \in 1..Len(raw.data) |->
                    [k \in 1..Len(raw.columns) |-> ReadCell(raw, i, k)]]]

column_mapping(c) ==
    CASE c = "Date"     -> "date"
      [] c = "HomeTeam" -> "home_team"
      [] c = "AwayTeam" -> "away_team"
      [] c = "FTHG"     -> "home_score"
      [] c = "FTAG"     -> "away_score"
      [] OTHER          -> c

rename_columns(df) ==
    [df EXCEPT !.columns = [k \in 1..Len(df.columns) |-> column_mapping(df.columns[k])]]

\* valid_cols keeps the requested columns the table has, in the requested order
get_columns(df, args) ==
    LET valid_cols == SelectSeq(args, LAMBDA col : InSeqOf(col, df.columns))
    IN  [columns |-> valid_cols,
         index   |-> df.index,
         data    |-> [i \in 1..Len(df.data) |->
                        [k \in 1..Len(valid_cols) |->
                            df.data[i][Pos(df.columns, valid_cols[k])]]]]

\* df[name] = values: replaces the column, or appends it as the last one
SetColumn(df, name, values) ==
    IF InSeqOf(name, df.columns)
    THEN [df EXCEPT !.data = [i \in 1..Len(df.data) |->
                                [df.data[i] EXCEPT ![Pos(df.columns, name)] = values[i]]]]
    ELSE [df EXCEPT !.columns = Append(df.columns, name),
                    !.data = [i \in 1..Len(df.data) |-> Append(df.data[i], values[i])]]

\* a scalar assigned to a column is repeated on every row
Broadcast(df, v) == [i \in 1..Len(df.data) |-> v]

get_league_name_from_file(file) == Text(Split(file, "_")[1])

SourceName == "football-data.co.uk"

\* The columns are assigned one after the other on the table itself; a file
\* name without "_" raises IndexError at the third assignment.
add_new_columns(df_clean, file) ==
    LET d1 == SetColumn(df_clean, "match_id", df_clean.index)
        d2 == SetColumn(d1, "league", Broadcast(d1, get_league_name_from_file(file)))
        parts == Split(file, "_")
    IN  IF Len(parts) < 2
        THEN [df |-> d2, exc |-> "IndexError"]
        ELSE [df  |-> SetColumn(SetColumn(d2, "season",
                                    Broadcast(d2, Text(Split(parts[2], ".")[1]))),
                                "source", Broadcast(d2, SourceName)),
              exc |-> "none"]

CanonicalColumns ==
    <<"match_id", "date", "league", "season", "home_team", "away_team",
      "home_score", "away_score", "source">>

process_df(df) == get_columns(df, CanonicalColumns)

\* The folder and the file name are concatenated as they are.
ProcessedPath(raw_filename) ==
    ProcessedFolder \o (Text(Split(raw_filename, ".")[1]) \o "_processed.csv")

\* to_csv(index=False): the header and the cells as text, without the index
to_csv(df) ==
    [columns |-> df.columns,
     data    |-> [i \in 1..Len(df.data) |->
                    [k \in 1..Len(df.columns) |->
                        IF df.columns[k] = "match_id"
                        THEN ToString(df.data[i][k]) ELSE df.data[i][k]]]]

NoTable == [columns |-> <<>>, index |-> <<>>, data |-> <<>>]
StaleContent == [columns |-> <<"match_id">>, data |-> <<<<"7">>>>]
MaxPipelineRuns == 2

TabularRead ==
    /\ \/ t_pc = "start"
       \/ t_pc = "saved" /\ t_runs < MaxPipelineRuns
    /\ t_df' = read_csv(t_raw)
    /\ t_pc' = "read"
    /\ UNCHANGED <<t_file, t_raw, t_disk, t_runs>>
    /\ UNCHANGED <<d_vars, s_vars, m_vars, u_vars, p_vars, a_vars>>

TabularRename ==
    /\ t_pc = "read"
    /\ t_df' = rename_columns(t_df)
    /\ t_pc' = "renamed"
    /\ UNCHANGED <<t_file, t_raw, t_disk, t_runs>>
    /\ UNCHANGED <<d_vars, s_vars, m_vars, u_vars, p_vars, a_vars>>

TabularAdd ==
    /\ t_pc = "renamed"
    /\ LET r == add_new_columns(t_df, t_file)
       IN  /\ t_df' = r.df
           /\ t_pc' = IF r.exc = "none" THEN "added" ELSE "failed"
    /\ UNCHANGED <<t_file, t_raw, t_disk, t_runs>>
    /\ UNCHANGED <<d_vars, s_vars, m_vars, u_vars, p_vars, a_vars>>

TabularProcess ==
    /\ t_pc = "added"
    /\ t_df' = process_df(t_df)
    /\ t_pc' = "processed"
    /\ UNCHANGED <<t_file, t_raw, t_disk, t_runs>>
    /\ UNCHANGED <<d_vars, s_vars, m_vars, u_vars, p_vars, a_vars>>

\* A writer that appends the rows to a file found at the path.
TabularSaveAppend ==
    /\ t_pc = "processed"
    /\ LET path == ProcessedPath(t_file)
           new == to_csv(t_df)
       IN  t_disk' = [t_disk EXCEPT ![path] =
                        IF t_disk[path] = <<>> THEN <<new>>
                        ELSE <<[columns |-> t_disk[path][1].columns,
                                data |-> t_disk[path][1].data \o new.data]>>]
    /\ t_runs' = t_runs + 1
    /\ t_pc' = "saved"
    /\ UNCHANGED <<t_file, t_raw, t_df>>
    /\ UNCHANGED <<d_vars, s_vars, m_vars, u_vars, p_vars, a_vars>>

TabularSave ==
    /\ t_pc = "processed"
    /\ t_disk' = [t_disk EXCEPT ![ProcessedPath(t_file)] = <<to_csv(t_df)>>]
    /\ t_runs' = t_runs + 1
    /\ t_pc' = "saved"
    /\ UNCHANGED <<t_file, t_raw, t_df>>
    /\ UNCHANGED <<d_vars, s_vars, m_vars, u_vars, p_vars, a_vars>>

TabularOff ==
    /\ t_pc = "off" /\ t_file = <<>> /\ t_raw = [columns |-> <<>>, data |-> <<>>]
    /\ t_df = NoTable /\ t_disk = <<>> /\ t_runs = 0

\* The processed file is absent at first, or left over from an earlier run.
TabularInit ==
    /\ t_pc = "start"
    /\ t_file \in Files
    /\ t_raw \in RawTables
    /\ t_df = NoTable
    /\ \E old \in {<<>>, <<StaleContent>>} :
          t_disk = [p \in {ProcessedPath(f) : f \in Files} |->
                        IF p = ProcessedPath(t_file) THEN old ELSE <<>>]
    /\ t_runs = 0

---------------------------------------------------------------------------
(* The url builders: football_data_collector, fbref_collector, collect_all *)

\* str(n) for n >= 0, as its decimal digits
RECURSIVE str(_)
str(n) == IF n < 10 THEN <<ToString(n)>> ELSE Append(str(n \div 10), ToString(n % 10))

\* The last two digits read as a number, which loses a leading zero.
LastTwoAsNumber(s) ==
    IF Len(s) >= 2 /\ s[Len(s) - 1] = "0" THEN <<s[Len(s)]>>
    ELSE SubSeq(s, IF Len(s) > 2 THEN Len(s) - 1 ELSE 1, Len(s))

\* s[-2:]
LastTwo(s) == SubSeq(s, IF Len(s) > 2 THEN Len(s) - 1 ELSE 1, Len(s))

\* football_data_collector.generate_request_url(league_id, league_name, season)
football_data_generate_request_url(league_id, league_name, season) ==
    LET season_code == Text(LastTwo(str(season))) \o Text(LastTwo(str(season + 1)))
        base_url == "https://www.football-data.co.uk/mmz4281"
    IN  base_url \o ("/" \o season_code \o "/" \o league_id \o ".csv")

\* A copy of the html builder that names the season by its first year only.
generate_request_url_one_year(league_id, league_name, season) ==
    LET season_code == ToString(season)
        endpoint == season_code \o "-" \o league_name \o "-Scores-and-Fixtures"
    IN  "https://fbref.com/en/comps/" \o ToString(league_id) \o "/"
            \o season_code \o "/schedule/" \o endpoint

\* collect_all.generate_request_url(league_id, league_name, season)
collect_all_generate_request_url(league_id, league_name, season) ==
    LET season_code == ToString(season) \o "-" \o ToString(season + 1)
        endpoint == season_code \o "-" \o league_name \o "-Scores-and-Fixtures"
    IN  "https://fbref.com/en/comps/" \o ToString(league_id) \o "/"
            \o season_code \o "/schedule/" \o endpoint

FourDigitYears == 1000..9999

\* League arguments: the code of the tabular feed, the id of the html site,
\* and the name, written with spaces or with hyphens.
UrlLeagues ==
    {[code |-> "E0", id |-> 9, name |-> <<"Premier", sep, "League">>] : sep \in {" ", "-"}}
    \cup {[code |-> "SP1", id |-> 12, name |-> <<"La", " ", "Liga">>],
          [code |-> "D1", id |-> 20, name |-> <<"Bundesliga">>]}

UrlTabular ==
    /\ u_pc = "ready"
    /\ u_out' = [u_out EXCEPT !.tabular =
                    football_data_generate_request_url(u_args.code, Text(u_args.name), u_args.season)]
    /\ u_pc' = "tabular"
    /\ UNCHANGED u_args
    /\ UNCHANGED <<d_vars, s_vars, m_vars, t_vars, p_vars, a_vars>>

UrlHtml ==
    /\ u_pc = "tabular"
    /\ u_out' = [u_out EXCEPT !.fbref =
                    generate_request_url(u_args.id, Text(u_args.name), u_args.season)]
    /\ u_pc' = "html"
    /\ UNCHANGED u_args
    /\ UNCHANGED <<d_vars, s_vars, m_vars, t_vars, p_vars, a_vars>>

UrlHtmlCollectAll ==
    /\ u_pc = "html"
    /\ u_out' = [u_out EXCEPT !.collect_all =
                    collect_all_generate_request_url(u_args.id, Text(u_args.name), u_args.season)]
    /\ u_pc' = "done"
    /\ UNCHANGED u_args
    /\ UNCHANGED <<d_vars, s_vars, m_vars, t_vars, p_vars, a_vars>>

NoUrls == [tabular |-> "", fbref |-> "", collect_all |-> ""]

UrlOff == u_pc = "off" /\ u_args = <<>> /\ u_out = NoUrls

UrlInit ==
    /\ u_pc = "ready"
    /\ \E l \in UrlLeagues, season \in FourDigitYears :
          u_args = [code |-> l.code, id |-> l.id, name |-> l.name, season |-> season]
    /\ u_out = NoUrls

---------------------------------------------------------------------------
(* parse_score: the score parser that collect_all imports from fbref_collector.
   The collector does not define it; it is modelled after its documented
   steps.  A score string is a sequence of characters. *)

EnDash == "en-dash"
Hyphen == "-"

\* position of the first c in s from position from on, 0 when there is none
IndexFrom(s, c, from) ==
    IF \E k \in from..Len(s) : s[k] = c
    THEN CHOOSE k \in from..Len(s) : s[k] = c /\ \A j \in from..(k - 1) : s[j] # c
    ELSE 0

\* position of the first " (" in s, 0 when there is none
IndexOfSpaceParen(s) ==
    IF \E k \in 1..(Len(s) - 1) : s[k] = " " /\ s[k + 1] = "("
    THEN CHOOSE k \in 1..(Len(s) - 1) :
            /\ s[k] = " " /\ s[k + 1] = "("
            /\ \A j \in 1..(k - 1) : ~(s[j] = " " /\ s[j + 1] = "(")
    ELSE 0

\* str.strip() of blanks
RECURSIVE Strip(_)
Strip(s) ==
    IF s # <<>> /\ Head(s) = " " THEN Strip(Tail(s))
    ELSE IF s # <<>> /\ s[Len(s)] = " " THEN Strip(SubSeq(s, 1, Len(s) - 1))
    ELSE s

\* The whole string taken as the main score, annotations included.
WholeString(raw) == raw

\* The main score: what stands between the first ")" and the following " (",
\* or all that follows the first ") " when no " (" follows.
MainScore(raw) ==
    LET close == IndexFrom(raw, ")", 2)
    IN  IF raw # <<>> /\ Head(raw) = "(" /\ close # 0
        THEN LET rest == SubSeq(raw, close + 1, Len(raw))
                 open == IndexOfSpaceParen(rest)
             IN  IF open # 0 THEN SubSeq(rest, 1, open - 1)
                 ELSE IF rest # <<>> /\ Head(rest) = " " THEN Tail(rest)
                 ELSE rest
        ELSE raw

NonePair == << <<>>, <<>> >>

\* (home, away) as texts, each wrapped in a one-element tuple; None is <<>>
parse_score(raw) ==
    LET main == MainScore(raw)
        delimiter == IF InSeqOf(EnDash, main) THEN EnDash
                     ELSE IF InSeqOf(Hyphen, main) THEN Hyphen ELSE ""
        halves == Split(main, delimiter)
    IN  IF delimiter = "" THEN NonePair
        ELSE << <<Text(Strip(halves[1]))>>, <<Text(Strip(halves[2]))>> >>

Blanks == {<<>>, <<" ">>}
Goals == {<<"0">>, <<"1">>, <<"1", "0">>}
Penalties == {<<"1">>, <<"4">>}
Dashes == {EnDash, Hyphen}

Plain(h, dash, a, b1, b2) == h \o b1 \o <<dash>> \o b2 \o a
Annotated(p, h, dash, a, b1, b2) == <<"(">> \o p \o <<")", " ">> \o Plain(h, dash, a, b1, b2)
Annotated2(p, h, dash, a, q, b1, b2) ==
    Annotated(p, h, dash, a, b1, b2) \o <<" ", "(">> \o q \o <<")">>

PlainScores ==
    {Plain(h, d, a, b1, b2) : h \in Goals, d \in Dashes, a \in Goals, b1 \in Blanks, b2 \in Blanks}
UnparsableScores ==
    {<<>>, <<"p", "o", "s", "t", "p", "o", "n", "e", "d">>, <<"(", "1", ")">>,
     <<"(", "1", ")", " ", "(", "4", ")">>, <<"2">>}

\* The score cells handed to the parser.
ScoreStrings ==
    PlainScores \cup UnparsableScores
    \cup {Annotated(p, h, d, a, b1, b1) :
            p \in Penalties, h \in Goals, d \in Dashes, a \in Goals, b1 \in Blanks}
    \cup {Annotated2(p, h, d, a, q, b1, b1) :
            p \in Penalties, h \in Goals, d \in Dashes, a \in Goals, q \in Penalties, b1 \in Blanks}

ParseScore ==
    /\ p_pc = "ready"
    /\ p_result' = parse_score(p_raw)
    /\ p_pc' = "done"
    /\ UNCHANGED p_raw
    /\ UNCHANGED <<d_vars, s_vars, m_vars, t_vars, u_vars, a_vars>>

ScoreOff == p_pc = "off" /\ p_raw = <<>> /\ p_result = NonePair

ScoreInit == p_pc = "ready" /\ p_raw \in ScoreStrings /\ p_result = NonePair

---------------------------------------------------------------------------
(* sports_apis: APIFootballClient *)

\* An optional argument is <<>> for None and <<v>> for the value v.
None == <<>>
FixtureIds == {None, <<215662>>}
Dates == {None, <<"2025-07-10">>}
LeagueIds == {None, <<39>>}
TeamIds == {None, <<33>>}
SeasonYears == {None, <<2023>>}

EmptyPayload ==
    [id |-> None, date |-> None, league |-> None, season |-> None, team |-> None]

\* A payload builder that sends the league filter without its season.
build_fixture_payload_without_season_check(fixture_id, date, league, team, season) ==
    [id |-> fixture_id, date |-> date, league |-> league,
     season |-> IF league # None THEN season ELSE None, team |-> team]

\* _build_fixture_payload: the keys set in the dict; {} is EmptyPayload
build_fixture_payload(fixture_id, date, league, team, season) ==
    LET p1 == IF fixture_id # None THEN [EmptyPayload EXCEPT !.id = fixture_id]
              ELSE EmptyPayload
        p2 == IF date # None THEN [p1 EXCEPT !.date = date] ELSE p1
    IN  IF league # None /\ season = None THEN EmptyPayload
        ELSE LET p3 == IF league # None
                       THEN [p2 EXCEPT !.league = league, !.season = season] ELSE p2
             IN  IF team # None THEN [p3 EXCEPT !.team = team] ELSE p3

\* What the network and the server can answer to one request.
FixtureLists == {<<>>, <<"fixture-1">>, <<"fixture-2", "fixture-1">>}
JsonBodies ==
    {"response_list", "response_not_list", "no_response_key", "not_a_dict",
     "wrong_content_type", "invalid_json"}
ApiStatuses == {200, 404, 500}
ApiOutcomes ==
    {[exc |-> "ClientConnectorError", status |-> 0, body |-> "none", list |-> <<>>]}
    \cup {[exc |-> "none", status |-> st, body |-> "none", list |-> <<>>] :
              st \in ApiStatuses \ {200}}
    \cup {[exc |-> "none", status |-> 200, body |-> b, list |-> <<>>] :
              b \in JsonBodies \ {"response_list"}}
    \cup {[exc |-> "none", status |-> 200, body |-> "response_list", list |-> l] :
              l \in FixtureLists}

ApiReturn(v) == [kind |-> "return", value |-> v, exc |-> "none"]
ApiRaise(x) == [kind |-> "raise", value |-> <<>>, exc |-> x]

\* The body of `async with self.session.get(...)` and the except clause:
\* ClientError and its subclasses are answered with [], anything else escapes.
ResponseHandling(out) ==
    IF out.exc # "none" THEN ApiReturn(<<>>)
    ELSE IF out.status >= 400 THEN ApiReturn(<<>>)          \* raise_for_status
    ELSE CASE out.body = "wrong_content_type" -> ApiReturn(<<>>)   \* ContentTypeError
           [] out.body = "invalid_json"       -> ApiRaise("JSONDecodeError")
           [] out.body = "not_a_dict"         -> ApiRaise("AttributeError")
           [] out.body = "no_response_key"    -> ApiReturn(<<>>)
           [] out.body = "response_not_list"  -> ApiReturn(<<>>)
           [] out.body = "response_list"      -> ApiReturn(out.list)

MaxApiOps == 3

\* No answer: the call sent no request.
NoOutcome == [exc |-> "none", status |-> 0, body |-> "none", list |-> <<>>]

NoCall == [args |-> <<>>, requests |-> 0, created |-> FALSE, out |-> NoOutcome,
           result |-> [kind |-> "none", value |-> <<>>, exc |-> "none"]]

\* __aenter__
ApiEnter ==
    /\ a_ops < MaxApiOps
    /\ a_sessions' = Append(a_sessions, [open |-> TRUE, requests |-> 0])
    /\ a_session' = Len(a_sessions) + 1
    /\ a_ops' = a_ops + 1
    /\ a_trace' = Append(a_trace, "aenter")
    /\ UNCHANGED <<a_key, a_last>>
    /\ UNCHANGED <<d_vars, s_vars, m_vars, t_vars, u_vars, p_vars>>

\* __aexit__
ApiExit ==
    /\ a_ops < MaxApiOps
    /\ a_sessions' = IF a_session # 0
                     THEN [a_sessions EXCEPT ![a_session].open = FALSE]
                     ELSE a_sessions
    /\ a_ops' = a_ops + 1
    /\ a_trace' = Append(a_trace, "aexit")
    /\ UNCHANGED <<a_key, a_session, a_last>>
    /\ UNCHANGED <<d_vars, s_vars, m_vars, t_vars, u_vars, p_vars>>

\* get_fixtures, with _build_fixture_payload and _fetch_fixtures
ApiGetFixtures ==
    /\ a_ops < MaxApiOps
    /\ a_ops' = a_ops + 1
    /\ a_trace' = Append(a_trace, "get_fixtures")
    /\ UNCHANGED a_key
    /\ \E fixture_id \in FixtureIds, date \in Dates, league \in LeagueIds,
          team \in TeamIds, season \in SeasonYears, out \in ApiOutcomes :
          LET args == [fixture_id |-> fixture_id, date |-> date, league |-> league,
                       team |-> team, season |-> season]
              payload == build_fixture_payload(fixture_id, date, league, team, season)
              Quiet(v) == /\ a_last' = [args |-> args, requests |-> 0, created |-> FALSE,
                                        out |-> NoOutcome, result |-> v]
                          /\ UNCHANGED <<a_session, a_sessions>>
          IN  IF ~a_key THEN Quiet(ApiReturn(<<>>))
              ELSE IF payload = EmptyPayload THEN Quiet(ApiReturn(<<>>))
              ELSE IF a_session = 0
              THEN \* the session is created on first use
                   /\ a_sessions' = Append(a_sessions, [open |-> TRUE, requests |-> 1])
                   /\ a_session' = Len(a_sessions) + 1
                   /\ a_last' = [args |-> args, requests |-> 1, created |-> TRUE,
                                 out |-> out, result |-> ResponseHandling(out)]
              ELSE IF ~a_sessions[a_session].open
              THEN \* a closed session refuses the request: RuntimeError
                   Quiet(ApiRaise("RuntimeError"))
              ELSE /\ a_sessions' = [a_sessions EXCEPT ![a_session].requests = @ + 1]
                   /\ a_last' = [args |-> args, requests |-> 1, created |-> FALSE,
                                 out |-> out, result |-> ResponseHandling(out)]
                   /\ UNCHANGED a_session
    /\ UNCHANGED <<d_vars, s_vars, m_vars, t_vars, u_vars, p_vars>>

ApiOff ==
    /\ a_key = FALSE /\ a_session = 0 /\ a_sessions = <<>> /\ a_ops = 0 /\ a_last = NoCall
    /\ a_trace = <<>>

\* __init__: the key comes from the argument or the environment, or is missing
ApiInit ==
    /\ a_key \in BOOLEAN
    /\ a_session = 0 /\ a_sessions = <<>> /\ a_ops = 0 /\ a_last = NoCall
    /\ a_trace = <<>>

OtherOff == TabularOff /\ UrlOff /\ ScoreOff /\ ApiOff

---------------------------------------------------------------------------
(* Specifications *)

TabularNext == TabularRead \/ TabularRename \/ TabularAdd \/ TabularProcess \/ TabularSave
UrlNext == UrlTabular \/ UrlHtml \/ UrlHtmlCollectAll
ApiNext == ApiEnter \/ ApiExit \/ ApiGetFixtures
FetchersOff == DirectInit /\ SelInit /\ MainOff

\* One call of download_single_html_page.
DirectNext == DirectCall \/ RootVisit \/ Attempt
InitDirect == DirectInit /\ SelInit /\ MainOff /\ OtherOff
SpecDirect == InitDirect /\ [][DirectNext]_vars

\* Concurrent calls of download_with_selenium.
SelNext ==
    \E c \in Calls :
        SelInvoke(c) \/ SelCreate(c) \/ SelScript(c) \/ SelGet(c) \/ SelWait(c) \/ SelRead(c)
InitSelenium == DirectInit /\ SelInit /\ MainOff /\ OtherOff
SpecSelenium == InitSelenium /\ [][SelNext]_vars

\* The __main__ driver, with its fetches running in call slot MainCall.
MainNext ==
    \/ MainFetch
    \/ MainResume
    \/ SelCreate(MainCall) \/ SelScript(MainCall) \/ SelGet(MainCall)
    \/ SelWait(MainCall) \/ SelRead(MainCall)
InitMain == DirectInit /\ SelInit /\ MainInit /\ OtherOff
SpecMain == InitMain /\ [][MainNext]_vars

\* The tabular pipeline, run on every raw file considered.
InitTabular == FetchersOff /\ TabularInit /\ UrlOff /\ ScoreOff /\ ApiOff
SpecTabular == InitTabular /\ [][TabularNext]_vars

\* The three url builders, called on every argument considered.
InitUrl == FetchersOff /\ TabularOff /\ UrlInit /\ ScoreOff /\ ApiOff
SpecUrl == InitUrl /\ [][UrlNext]_vars

\* parse_score, called on every score string considered.
InitScore == FetchersOff /\ TabularOff /\ UrlOff /\ ScoreInit /\ ApiOff
SpecScore == InitScore /\ [][ParseScore]_vars

\* A client of API-Football, used in any order of its operations.
InitApi == FetchersOff /\ TabularOff /\ UrlOff /\ ScoreOff /\ ApiInit
SpecApi == InitApi /\ [][ApiNext]_vars

---------------------------------------------------------------------------
(* Properties of download_single_html_page, checked under SpecDirect *)

\* x occurs in the sequence s.
InSeq(x, s) == \E k \in 1..Len(s) : s[k] = x

\* The k-th request to the target URL was answered with status 200.
AnsweredOK(k) ==
    /\ TargetRequests[k].out.exc = "none"
    /\ TargetRequests[k].out.status = 200

\* C1: a call issues at most 3 GET requests to the target URL; a response with
\* status 200 is the last request of the call, and the call has returned exactly
\* that response's body.
C1_AtMostThreeGetsFirstOKReturned ==
    /\ Len(TargetRequests) <= 3
    /\ \A k \in 1..Len(TargetRequests) :
         AnsweredOK(k) =>
            /\ k = Len(TargetRequests)
            /\ d_pc = "done"
            /\ d_result = Return(<<TargetRequests[k].out.text>>)

\* C1 witness: two failed attempts, then a 200 on the third, whose body is returned.
C1_Witness ==
    /\ d_pc = "done"
    /\ Len(TargetRequests) = 3
    /\ TargetRequests[1].out.status = 403
    /\ TargetRequests[2].out.status = 500
    /\ AnsweredOK(3)
    /\ d_result = Return(<<"<html>fixtures</html>">>)

\* C2 (as claimed): after three responses none of which has status 200, the call
\* has raised an error with a message; it has not returned normally.
C2_ThreeNonOKAlwaysRaise ==
    ( /\ d_pc = "done"
      /\ Len(TargetRequests) = 3
      /\ \A k \in 1..3 : TargetRequests[k].out.exc = "none" /\ ~AnsweredOK(k) )
    => ( d_result.kind = "raise" /\ d_result.msg # <<>> )

\* C3 (as claimed): a RequestException raised by the request of attempt 1 or 2 is
\* followed by a further attempt on the target URL.
C3_NetworkErrorRetried ==
    \A k \in 1..Len(TargetRequests) :
        ( /\ d_pc = "done"
          /\ k <= 2
          /\ TargetRequests[k].out.exc \in RequestExceptions )
        => Len(TargetRequests) > k

---------------------------------------------------------------------------
(* Properties of download_with_selenium, checked under SpecSelenium *)

\* The text holds one of the two challenge markers.
HoldsMarker(text) ==
    \/ Contains(<<"Just", "a", "moment">>, text)
    \/ Contains(<<"Checking", "your", "browser">>, text)

\* The remediation hints were printed by call c.
HintsPrinted(c) ==
    /\ InSeq("Troubleshooting", s_prints[c])
    /\ InSeq("1. Make sure Chrome browser is installed", s_prints[c])
    /\ InSeq("2. Install ChromeDriver", s_prints[c])

\* C4: every value a call returns is the page content it read, and holds neither
\* "Just a moment" nor "Checking your browser", after a completed wait and after
\* a timed-out one alike.
C4_NeverReturnsChallenge ==
    \A c \in Calls :
        s_result[c].kind = "return" =>
            /\ s_result[c].value # <<>>
            /\ s_result[c].value = s_html[c]
            /\ ~HoldsMarker(s_result[c].value[1])

\* C4 witness: one call returned after a timed-out wait, another after a completed one.
C4_Witness ==
    \E c1, c2 \in Calls :
        /\ s_result[c1].kind = "return" /\ s_timedOut[c1]
        /\ s_result[c2].kind = "return" /\ ~s_timedOut[c2]
        /\ s_result[c1].value[1] = <<"Just", "a", s_url[c1], "Checking", "your">>

\* C5: a session that was created is live and never quit while its call runs, and
\* has been quit exactly once when its call has ended, whatever the exit path.
C5_QuitExactlyOnce ==
    \A d \in 1..Len(drivers) :
        LET o == drivers[d].owner IN
        IF s_pc[o] = "done"
          THEN drivers[d].quits = 1 /\ ~drivers[d].live
          ELSE drivers[d].quits = 0 /\ drivers[d].live

\* C5 witness: one call ended on the challenge-still-present path and another on a
\* WebDriverException, both after creating a driver, and neither session is live.
C5_Witness ==
    \E c1, c2 \in Calls :
        /\ s_pc[c1] = "done" /\ s_pc[c2] = "done"
        /\ s_driver[c1] # 0 /\ s_driver[c2] # 0
        /\ s_html[c1] # <<>> /\ s_result[c1].kind = "raise"
        /\ s_result[c2].msg = <<"WebDriver error", "get">>
        /\ \A d \in 1..Len(drivers) : ~drivers[d].live /\ drivers[d].quits = 1

\* Call c has ended after reading final page content that holds a challenge marker.
EndedOnChallenge(c) ==
    /\ s_pc[c] = "done"
    /\ s_html[c] # <<>>
    /\ HoldsMarker(s_html[c][1])

C9_SessionExclusive ==
    /\ \A d \in 1..Len(drivers) :
         /\ drivers[d].users \subseteq {drivers[d].owner}
         /\ s_driver[drivers[d].owner] = d
    /\ \A c \in Calls :
         s_driver[c] # 0 =>
            /\ s_driver[c] \in 1..Len(drivers)
            /\ drivers[s_driver[c]].owner = c
            /\ \A c2 \in Calls \ {c} : s_driver[c2] # s_driver[c]
            /\ s_pc[c] = "done" => ~drivers[s_driver[c]].live

\* C9 witness: two calls overlapped: the one that created its driver later has
\* already ended and quit it, while the earlier one is still reading its page.
C9_Witness ==
    \E c1, c2 \in Calls :
        /\ s_pc[c1] = "read" /\ s_pc[c2] = "done"
        /\ s_driver[c1] # 0 /\ s_driver[c2] > s_driver[c1]
        /\ drivers[s_driver[c1]].live /\ drivers[s_driver[c1]].users = {c1}
        /\ ~drivers[s_driver[c2]].live /\ drivers[s_driver[c2]].users = {c2}

\* C10: after a timed-out wait the call has performed the think-delay and goes on
\* to read the page; once it has ended, it returned the content it read if and
\* only if it read content and that content holds no challenge marker.
C10_TimeoutNotFatal ==
    \A c \in Calls :
        s_timedOut[c] =>
            /\ Len(s_slept[c]) = 1
            /\ s_slept[c][1] >= 2 /\ s_slept[c][1] <= 5
            /\ s_pc[c] \in {"read", "done"}
            /\ s_pc[c] = "read" => s_result[c] = Pending
            /\ s_pc[c] = "done" =>
                /\ s_result[c].kind = "return"
                      <=> (s_html[c] # <<>> /\ ~HoldsMarker(s_html[c][1]))
                /\ s_result[c].kind = "return" => s_result[c].value = s_html[c]

\* C10 witness: a call whose wait timed out returned the page it then read.
C10_Witness ==
    \E c \in Calls :
        /\ s_timedOut[c]
        /\ s_pc[c] = "done"
        /\ s_result[c] = Return(<<<<s_url[c], "fixtures">>>>)

---------------------------------------------------------------------------
(* Properties of the __main__ driver loop, checked under SpecMain *)

\* C7 (as claimed): when the run has ended, every task of the run was attempted,
\* also when the fetch of an earlier task failed.
C7_FailureDoesNotAbortSiblings ==
    m_pc = "done" =>
        /\ Len(m_attempted) = Len(m_seasons) * Len(m_leagues)
        /\ \A t \in AllTasks : InSeq(t, m_attempted)

\* C8 (as claimed): when the run has ended and every task's fetch succeeded, each
\* task's content is in the file named after its league and season, and there are
\* as many files as tasks.
C8_EachTaskWritesItsFile ==
    ( m_pc = "done" /\ Len(m_fetched) = Len(m_seasons) * Len(m_leagues) ) =>
        /\ \A k \in 1..Len(m_fetched) :
             LET name == OutputFile(m_fetched[k].task.league, m_fetched[k].task.season)
             IN  /\ name \in DOMAIN m_files
                 /\ m_files[name] = m_fetched[k].content
        /\ Cardinality(DOMAIN m_files) = Len(m_fetched)

---------------------------------------------------------------------------
(* Further properties of download_single_html_page, checked under SpecDirect *)

\* The visit of the root host raised an exception.
RootFailed ==
    /\ Len(d_reqs) >= 1
    /\ d_reqs[1].to = "root"
    /\ d_reqs[1].out.exc # "none"

\* How a call ends, as decided by its last request to the target URL alone.
OutcomeOfLastTarget(out) ==
    IF out.exc # "none"
      THEN RaiseValueError(<<"Failed to fetch data from url", out.exc>>)
      ELSE IF out.status = 200
             THEN Return(<<out.text>>)
             ELSE IF out.status >= 400 /\ out.status < 600
                    THEN RaiseValueError(<<"Failed to fetch data from url", "HTTPError">>)
                    ELSE Return(<<>>)

\* C11: after a failed root-host visit the call goes on to the target URL: it
\* is attempting (session open, fewer than 3 attempts made, no result yet) or it
\* has ended, and then only because an attempt was decisive or all 3 were made,
\* with the outcome its last target request decides.
C11_RootFailureNotFatal ==
    RootFailed =>
        /\ d_pc \in {"attempt", "done"}
        /\ d_pc = "attempt" =>
              /\ d_open
              /\ d_result = Pending
              /\ Len(TargetRequests) < 3
        /\ d_pc = "done" =>
              /\ Len(TargetRequests) >= 1
              /\ \/ Len(TargetRequests) = 3
                 \/ TargetRequests[Len(TargetRequests)].out.exc # "none"
                 \/ AnsweredOK(Len(TargetRequests))
              /\ d_result = OutcomeOfLastTarget(TargetRequests[Len(TargetRequests)].out)

\* C11 witness: the root visit raised, three attempts followed, the third succeeded.
C11_Witness ==
    /\ RootFailed
    /\ d_reqs[1].out.exc = "Exception"
    /\ d_pc = "done"
    /\ Len(TargetRequests) = 3
    /\ d_result = Return(<<"<html>fixtures</html>">>)

\* The backoff sleeps of the call, in order.
Backoffs == SelectSeq(d_sleeps, LAMBDA z : z.why \in {"forbidden", "other"})

\* The k-th request to the target URL was answered, with a status other than 200.
AnsweredNotOK(k) ==
    /\ TargetRequests[k].out.exc = "none"
    /\ TargetRequests[k].out.status # 200

\* C12 (as claimed): every backoff drawn after a 403 is longer than every backoff
\* drawn after another non-200 status.
C12_ForbiddenBackoffAlwaysLonger ==
    \A a, b \in 1..Len(Backoffs) :
        (Backoffs[a].why = "forbidden" /\ Backoffs[b].why = "other")
            => Backoffs[a].dur > Backoffs[b].dur

\* C12 (amended): there is one backoff after each non-200 answer to attempt 1 or
\* 2 and none after attempt 3; a backoff after a 403 lies in 5..15 and a backoff
\* after another status in 2..8.
C12_BackoffOnlyBetweenAttempts ==
    /\ Len(Backoffs) <= 2
    /\ Len(Backoffs) =
          Cardinality({k \in 1..Len(TargetRequests) : k <= 2 /\ AnsweredNotOK(k)})
    /\ \A k \in 1..Len(Backoffs) :
          /\ AnsweredNotOK(k)
          /\ IF TargetRequests[k].out.status = 403
               THEN /\ Backoffs[k].why = "forbidden"
                    /\ Backoffs[k].dur >= 5 /\ Backoffs[k].dur <= 15
               ELSE /\ Backoffs[k].why = "other"
                    /\ Backoffs[k].dur >= 2 /\ Backoffs[k].dur <= 8

\* C12 witness: three failed attempts, a 403 backoff of 5 after the first, a
\* longer backoff of 8 after the second (a 404), and none after the third.
C12_Witness ==
    /\ d_pc = "done"
    /\ Len(TargetRequests) = 3
    /\ AnsweredNotOK(3)
    /\ Len(Backoffs) = 2
    /\ Backoffs[1] = [why |-> "forbidden", dur |-> 5]
    /\ Backoffs[2] = [why |-> "other", dur |-> 8]

---------------------------------------------------------------------------
(* Properties of the tabular pipeline, checked under SpecTabular *)

\* The processed file of the raw file in hand, once written.
Persisted == t_disk[ProcessedPath(t_file)][1]

\* The cell of column name in the i-th row of a table, NaN when the table
\* has no such column.
Cell(table, i, name) ==
    IF InSeqOf(name, table.columns) THEN table.data[i][Pos(table.columns, name)] ELSE NaN

C14_NineColumnsAlways ==
    t_pc = "saved" => Persisted.columns = CanonicalColumns

\* C15: in every persisted row home_score and away_score are both present
\* or both empty (stated for the raw files that have both goal columns).
C15_ScoresPaired ==
    (t_pc = "saved" /\ InSeqOf("FTHG", t_raw.columns) /\ InSeqOf("FTAG", t_raw.columns)) =>
        \A i \in 1..Len(Persisted.data) :
            (Cell(Persisted, i, "home_score") = NaN) <=> (Cell(Persisted, i, "away_score") = NaN)

\* The raw file of scenario A: the one line of the match Man United - Fulham.
ScenarioA ==
    /\ t_file = FilePL
    /\ t_raw.columns \in {HeaderFull, HeaderReordered}
    /\ t_raw.data = <<[k \in 1..Len(t_raw.columns) |-> MatchA[t_raw.columns[k]]]>>

\* C16: scenario A yields the record date 2024-08-16, Man United, Fulham,
\* 1, 0, Premier-League, 2024, football-data.
C16_ScenarioARecord ==
    (ScenarioA /\ t_pc \in {"processed", "saved"}) =>
        /\ Cell(t_df, 1, "date") = "2024-08-16"
        /\ Cell(t_df, 1, "home_team") = "Man United"
        /\ Cell(t_df, 1, "away_team") = "Fulham"
        /\ Cell(t_df, 1, "home_score") = "1"
        /\ Cell(t_df, 1, "away_score") = "0"
        /\ Cell(t_df, 1, "league") = "Premier-League"
        /\ Cell(t_df, 1, "season") = "2024"
        /\ Cell(t_df, 1, "source") = "football-data"

---------------------------------------------------------------------------
(* Properties of the url builders, checked under SpecUrl *)

\* n < 100 written with two digits
TwoDigits(n) == ToString(n \div 10) \o ToString(n % 10)

TabularTemplate(season_code, league_code) ==
    "https://www.football-data.co.uk/mmz4281/" \o season_code \o "/" \o league_code \o ".csv"

Slug(name) == Text([k \in 1..Len(name) |-> IF name[k] = " " THEN "-" ELSE name[k]])

HtmlTemplate(league_id, season, league) ==
    "https://fbref.com/en/comps/" \o ToString(league_id) \o "/"
        \o ToString(season) \o "-" \o ToString(season + 1) \o "/schedule/"
        \o ToString(season) \o "-" \o ToString(season + 1) \o "-" \o league
        \o "-Scores-and-Fixtures"

---------------------------------------------------------------------------
(* Properties of parse_score, checked under SpecScore *)

\* The score "(1) 0-1 (4)" written with an en-dash.
PenaltyExample == <<"(", "1", ")", " ", "0", EnDash, "1", " ", "(", "4", ")">>

\* C19: for every score of the form "(P) H-A (Q)" or "(P) H-A", with an
\* en-dash or a plain hyphen, parse_score returns (H, A) trimmed; the result
\* is always a pair of two values or (None, None).
C19_PenaltyAnnotationsStripped ==
    p_pc = "done" =>
        /\ \A p \in Penalties, h \in Goals, d \in Dashes, a \in Goals, b \in Blanks :
              (\/ p_raw = Annotated(p, h, d, a, b, b)
               \/ \E q \in Penalties : p_raw = Annotated2(p, h, d, a, q, b, b))
              => p_result = << <<Text(h)>>, <<Text(a)>> >>
        /\ p_raw = PenaltyExample => p_result = << <<"0">>, <<"1">> >>
        /\ Len(p_result) = 2
        /\ (p_result[1] = None) <=> (p_result[2] = None)
        /\ p_raw \in UnparsableScores => p_result = NonePair

C19_Witness ==
    /\ p_pc = "done"
    /\ p_raw = PenaltyExample
    /\ p_result = << <<"0">>, <<"1">> >>

---------------------------------------------------------------------------
(* Properties of APIFootballClient, checked under SpecApi *)

Called == a_last.result.kind # "none"

\* no filter at all, or a league without its season
NoUsableQuery(g) ==
    \/ g.fixture_id = None /\ g.date = None /\ g.league = None /\ g.team = None
          /\ g.season = None
    \/ g.league # None /\ g.season = None

\* HTTP requests sent by the client so far, over all its sessions
RECURSIVE RequestsOf(_)
RequestsOf(sessions) ==
    IF sessions = <<>> THEN 0 ELSE Head(sessions).requests + RequestsOf(Tail(sessions))

\* C20: get_fixtures returns [] and sends no request when it is called
\* without any filter, with a league and no season (whatever the other
\* filters), or on a client without API key.
C20_NoUsableQueryNoRequest ==
    (Called /\ (~a_key \/ NoUsableQuery(a_last.args))) =>
        /\ a_last.result = ApiReturn(<<>>)
        /\ a_last.requests = 0
        /\ ~a_last.created

C20_Witness ==
    /\ a_key
    /\ Called
    /\ a_last.args = [fixture_id |-> <<215662>>, date |-> <<"2025-07-10">>,
                      league |-> <<39>>, team |-> <<33>>, season |-> None]
    /\ a_last.result = ApiReturn(<<>>)
    /\ a_last.requests = 0
    /\ a_session # 0
    /\ a_sessions[a_session].open
    /\ RequestsOf(a_sessions) = 0

\* fixture id, date or team, or a league together with its season
ValidFilter(g) ==
    /\ ~(g.league # None /\ g.season = None)
    /\ g.fixture_id # None \/ g.date # None \/ g.team # None \/ g.league # None

\* The bodies that are JSON documents, whatever their shape.
JsonDocuments == {"response_list", "response_not_list", "no_response_key", "not_a_dict"}

\* The client can send: it has a key, and its session is absent or open
\* when the call is made (a_last.requests = 1 says the request went out).
Sent == Called /\ a_key /\ a_last.requests = 1

\* C21: for a valid filter, a 200 answer with a JSON body gives exactly the
\* list under "response", and [] when the key is absent or not a list; a
\* ClientError gives []; exactly one request is sent and the result is
\* always a list.
C21_ResponseListReturned ==
    (Sent /\ ValidFilter(a_last.args)) =>
        /\ (a_last.out.exc = "none" /\ a_last.out.status = 200
                /\ a_last.out.body \in JsonDocuments) =>
              /\ a_last.result.kind = "return"
              /\ a_last.result.value =
                    IF a_last.out.body = "response_list" THEN a_last.out.list ELSE <<>>
        /\ a_last.out.exc # "none" => a_last.result = ApiReturn(<<>>)

---------------------------------------------------------------------------
(* Further properties of the tabular pipeline, checked under SpecTabular *)

\* What one run of the pipeline on the raw file writes.
OutputOf(raw, file) ==
    to_csv(process_df(add_new_columns(rename_columns(read_csv(raw)), file).df))

\* C22: after save_df_to_csv the processed file holds exactly the
\* serialization of the table given, whatever it held before, and a further
\* run on the same raw file leaves every processed file as it is.
C22_OverwriteAndIdempotent ==
    /\ [](t_pc = "saved" =>
            /\ Persisted = to_csv(t_df)
            /\ Persisted = OutputOf(t_raw, t_file)
            /\ \A p \in DOMAIN t_disk : p # ProcessedPath(t_file) => t_disk[p] = <<>>)
    /\ [][(t_pc = "processed" /\ t_runs >= 1) => t_disk' = t_disk]_vars

C22_Witness ==
    /\ t_pc = "saved"
    /\ t_runs = 2
    /\ Len(t_raw.data) = 2
    /\ Persisted = OutputOf(t_raw, t_file)
    /\ Persisted # StaleContent

---------------------------------------------------------------------------
(* The session of download_single_html_page, checked under SpecDirect *)

\* C23: the session of the call is closed exactly once on every way out
\* (a 200, three answers other than 200, a network exception on any
\* attempt, each of them after a root-host visit that worked or failed),
\* never before the call ends, and no request is issued on a closed session.
C23_SessionClosedExactlyOnce ==
    /\ [](/\ d_pc \in {"root", "attempt"} => (d_open /\ d_closes = 0)
          /\ d_pc = "done" => (~d_open /\ d_closes = 1 /\ d_result # Pending))
    /\ [][d_reqs' # d_reqs => (d_open /\ d_closes = 0)]_vars
    /\ [][d_pc = "done" => d_reqs' = d_reqs]_vars

C23_Witness ==
    /\ d_pc = "done"
    /\ RootFailed
    /\ Len(TargetRequests) = 3
    /\ d_result.kind = "raise"
    /\ d_closes = 1
    /\ ~d_open

---------------------------------------------------------------------------
(* The sessions of APIFootballClient, checked under SpecApi *)

\* The __aenter__ and __aexit__ calls made so far, in order.
EnterExit == SelectSeq(a_trace, LAMBDA op : op \in {"aenter", "aexit"})

\* The caller is not inside an `async with client` block: the client was
\* never entered, or the last of its enter/exit calls is __aexit__.  The use
\* of the client may end in any such state.
UseMayHaveEnded == EnterExit = <<>> \/ EnterExit[Len(EnterExit)] = "aexit"

\* C24: whatever the sequence of __aenter__, get_fixtures and __aexit__,
\* no session created by the client is open once its use has ended.
C24_NoSessionLeftOpen ==
    UseMayHaveEnded => \A k \in 1..Len(a_sessions) : ~a_sessions[k].open

====
